---- MODULE Spec2Model ----
(***************************************************************************)
(* Model of pnpstitcher.generator.base.BaseGenerator: the grid planner     *)
(* (_generate_cut_line) and the page composer (generate).                  *)
(*                                                                         *)
(* Lengths are fixed-point numbers: a length is an integer number of ticks *)
(* and one linear unit (an inch in the source's docstrings) is Ticks ticks.*)
(* Page sizes, margins and trim offsets are drawn in steps of two ticks    *)
(* and image_dpi divides StepsPerUnit, so that every division the source   *)
(* makes (pixels / dpi, remainder / 2) is exact in ticks.  The arithmetic  *)
(* is that of Python 3: / is true division, round() rounds a tie to the    *)
(* even integer, divmod floors.                                            *)
(*                                                                         *)
(* The drawing hooks (_initialize_page, _draw_cutlines, _draw_image,       *)
(* _render_page) are abstract in the source; each call is recorded in the  *)
(* history variable calls.                                                 *)
(***************************************************************************)
EXTENDS Integers, Sequences, FiniteSets

\* Bounds of the model.
StepsPerUnit == 2
MaxPage == 5
MaxPx == 3
MaxImages == 5

Ticks == 2 * StepsPerUnit
Step == Ticks \div StepsPerUnit

\* Input domains (lengths in ticks).
PageLengths == { Step * k : k \in 1..MaxPage }
Margins == { 0, Step }
TrimOffsets == { 0, Step }
ImageDpis == { 1, StepsPerUnit }
Layers == { "top", "bottom" }

VARIABLES
    page_width, page_height, page_margin_x, page_margin_y, image_dpi,
    image_size, image_set, cutline_config, rtl,
    card_num_x, card_num_y, cut_margin_x, cut_margin_y, cutline_set,
    x_cnt, y_cnt, x_pos, y_pos, idx, pc, calls

vars == << page_width, page_height, page_margin_x, page_margin_y, image_dpi,
           image_size, image_set, cutline_config, rtl,
           card_num_x, card_num_y, cut_margin_x, cut_margin_y, cutline_set,
           x_cnt, y_cnt, x_pos, y_pos, idx, pc, calls >>

inputs == << page_width, page_height, page_margin_x, page_margin_y, image_dpi,
             image_size, image_set, cutline_config, rtl >>

----------------------------------------------------------------------------
\* Pure helpers.

CutLine(x0, y0, x1, y1) == [x0 |-> x0, y0 |-> y0, x1 |-> x1, y1 |-> y1]

\* image_dimension[k] / self.image_dpi, in ticks.
ImageLength(pixels, dpi) == (pixels * Ticks) \div dpi

\* Python 3 round(x) of a length x >= 0, as a length: the nearest whole
\* number of units, a tie going to the even one.
Round(x) ==
    LET q == x \div Ticks
        f == x % Ticks
    IN  IF 2 * f < Ticks THEN q * Ticks
        ELSE IF 2 * f > Ticks THEN (q + 1) * Ticks
        ELSE IF q % 2 = 0 THEN q * Ticks ELSE (q + 1) * Ticks

\* round(page - margin * 2), the dividend of the divmod.
Usable(page, margin) == Round(page - margin * 2)

\* divmod(a, b) for b > 0.
DivMod(a, b) == << a \div b, a % b >>

\* int(divmod(round(page - margin * 2), image_length)[0])
CardNum(page, margin, image_length) ==
    DivMod(Usable(page, margin), image_length)[1]

\* divmod(...)[1] / 2 + margin
CutMargin(page, margin, image_length) ==
    DivMod(Usable(page, margin), image_length)[2] \div 2 + margin

\* The guard of the RuntimeError('Image too large for the page').
TooLargeBoth(cnx, cny) == cnx = 0 /\ cny = 0
TooLarge(cnx, cny) == cnx = 0 \/ cny = 0

\* One iteration of the vertical cut-line loop: the lines it appends.
ColumnCutsOne(prev_x, next_x, trim_x, height) ==
    IF trim_x # 0
    THEN << CutLine(prev_x + trim_x, 0, prev_x + trim_x, height) >>
    ELSE << CutLine(next_x, 0, next_x, height) >>
ColumnCuts(prev_x, next_x, trim_x, height) ==
    IF trim_x # 0
    THEN << CutLine(prev_x + trim_x, 0, prev_x + trim_x, height),
            CutLine(next_x - trim_x, 0, next_x - trim_x, height) >>
    ELSE << CutLine(next_x, 0, next_x, height) >>

\* One iteration of the horizontal cut-line loop.
RowCuts(prev_y, next_y, trim_y, width) ==
    IF trim_y # 0
    THEN << CutLine(0, prev_y + trim_y, width, prev_y + trim_y),
            CutLine(0, next_y - trim_y, width, next_y - trim_y) >>
    ELSE << CutLine(0, next_y, width, next_y) >>

RECURSIVE VerticalLoop(_, _, _, _, _)
VerticalLoop(prev_x, cnt, image_width, trim_x, height) ==
    IF cnt <= 0 THEN << >>
    ELSE LET next_x == prev_x + image_width
         IN  ColumnCuts(prev_x, next_x, trim_x, height)
             \o VerticalLoop(next_x, cnt - 1, image_width, trim_x, height)

RECURSIVE HorizontalLoop(_, _, _, _, _)
HorizontalLoop(prev_y, cnt, image_height, trim_y, width) ==
    IF cnt <= 0 THEN << >>
    ELSE LET next_y == prev_y + image_height
         IN  RowCuts(prev_y, next_y, trim_y, width)
             \o HorizontalLoop(next_y, cnt - 1, image_height, trim_y, width)

\* The cutline_set the planner builds.
CutlineSet(cmx, cmy, cnx, cny, iw, ih, trim_x, trim_y, width, height) ==
    (IF trim_x = 0 THEN << CutLine(cmx, 0, cmx, height) >> ELSE << >>)
    \o VerticalLoop(cmx, cnx, iw, trim_x, height)
    \o (IF trim_y = 0 THEN << CutLine(0, cmy, width, cmy) >> ELSE << >>)
    \o HorizontalLoop(cmy, cny, ih, trim_y, width)

\* x_pos of column x in generate's loop.
XPosNoMirror(is_rtl, width, cmx, x, image_width) ==
    IF is_rtl THEN width - cmx - (x * image_width)
    ELSE cmx + (x * image_width)
XPos(is_rtl, width, cmx, x, image_width) ==
    IF is_rtl THEN width - cmx - ((x + 1) * image_width)
    ELSE cmx + (x * image_width)

\* y_pos of row y.
YPos(cmy, y, image_height) == cmy + (y * image_height)

\* "Switch to next row": x_cnt >= self._card_num_x
RowDone(x, cnx) == x >= cnx

\* "past the page threshold": y_cnt >= self._card_num_y
PageDoneLate(y, cny) == y > cny
PageDone(y, cny) == y >= cny

\* The left-over test after the loop: x_cnt != 0 or y_cnt != 0
LeftOverAlways(x, y) == TRUE
LeftOver(x, y) == x # 0 \/ y # 0

\* Entries of the call history.
Call(op) == [op |-> op, image |-> 0, x |-> 0, y |-> 0, w |-> 0, h |-> 0]
DrawCall(image, x, y, w, h) ==
    [op |-> "draw_image", image |-> image, x |-> x, y |-> y, w |-> w, h |-> h]

\* The calls _draw_cutlines makes when the configured layer is the given one.
CutlinesIf(at) ==
    IF cutline_config.layer = at THEN << Call("draw_cutlines") >> ELSE << >>

image_width == ImageLength(image_size[1], image_dpi)
image_height == ImageLength(image_size[2], image_dpi)

----------------------------------------------------------------------------
\* The state after construction and before generate() is called.

Init ==
    /\ page_width \in PageLengths
    /\ page_height \in PageLengths
    \* Margins that leave no room at all are drawn (an empty usable area
    \* makes the planner raise); margins larger than the page are not.
    /\ page_margin_x \in { m \in Margins : 2 * m <= page_width }
    /\ page_margin_y \in { m \in Margins : 2 * m <= page_height }
    /\ image_dpi \in ImageDpis
    /\ image_size \in (1..MaxPx) \X (1..MaxPx)
    /\ image_set \in { [k \in 1..n |-> k] : n \in 0..MaxImages }
    /\ cutline_config \in [layer : Layers, trim_offset_x : TrimOffsets,
                           trim_offset_y : TrimOffsets]
    /\ rtl \in BOOLEAN
    /\ card_num_x = 0
    /\ card_num_y = 0
    /\ cut_margin_x = 0
    /\ cut_margin_y = 0
    /\ cutline_set = << >>
    /\ x_cnt = 0
    /\ y_cnt = 0
    /\ x_pos = 0
    /\ y_pos = 0
    /\ idx = 0
    /\ pc = "start"
    /\ calls = << >>

\* generate(), up to the loop: the call of _generate_cut_line and the
\* initialisation of the locals.  _generate_cut_line assigns the grid
\* capacity and the margins before it may raise, and the cut-line set after.
GenerateBegin ==
    /\ pc = "start"
    /\ LET cnx == CardNum(page_width, page_margin_x, image_width)
           cny == CardNum(page_height, page_margin_y, image_height)
           cmx == CutMargin(page_width, page_margin_x, image_width)
           cmy == CutMargin(page_height, page_margin_y, image_height)
       IN  /\ card_num_x' = cnx
           /\ card_num_y' = cny
           /\ cut_margin_x' = cmx
           /\ cut_margin_y' = cmy
           /\ IF TooLarge(cnx, cny)
              THEN /\ pc' = "raised"
                   /\ UNCHANGED cutline_set
              ELSE /\ pc' = "loop"
                   /\ cutline_set' =
                        CutlineSet(cmx, cmy, cnx, cny, image_width,
                                   image_height, cutline_config.trim_offset_x,
                                   cutline_config.trim_offset_y,
                                   page_width, page_height)
    /\ UNCHANGED << inputs, x_cnt, y_cnt, x_pos, y_pos, idx, calls >>

\* One iteration of "for pil_image in image_catalog.image_set".
LoopBody ==
    /\ pc = "loop"
    /\ idx < Len(image_set)
    /\ LET pil_image == image_set[idx + 1]
           fresh == IF x_cnt = 0 /\ y_cnt = 0
                    THEN << Call("initialize_page") >> \o CutlinesIf("bottom")
                    ELSE << >>
           xp == XPos(rtl, page_width, cut_margin_x, x_cnt, image_width)
           yp == YPos(cut_margin_y, y_cnt, image_height)
           x1 == x_cnt + 1
           wrap == RowDone(x1, card_num_x)
           x2 == IF wrap THEN 0 ELSE x1
           y2 == IF wrap THEN y_cnt + 1 ELSE y_cnt
           full == PageDone(y2, card_num_y)
       IN  /\ x_pos' = xp
           /\ y_pos' = yp
           /\ x_cnt' = IF full THEN 0 ELSE x2
           /\ y_cnt' = IF full THEN 0 ELSE y2
           /\ calls' = calls \o fresh
                       \o << DrawCall(pil_image, xp, yp,
                                      image_width, image_height) >>
                       \o (IF full
                           THEN CutlinesIf("top") \o << Call("render_page") >>
                           ELSE << >>)
    /\ idx' = idx + 1
    /\ UNCHANGED << inputs, card_num_x, card_num_y, cut_margin_x,
                    cut_margin_y, cutline_set, pc >>

\* The loop is exhausted: render the left-over page, if any, and return.
LoopExitNoCutlines ==
    /\ pc = "loop"
    /\ idx = Len(image_set)
    /\ calls' = IF LeftOver(x_cnt, y_cnt)
                THEN calls \o << Call("render_page") >>
                ELSE calls
    /\ pc' = "done"
    /\ UNCHANGED << inputs, card_num_x, card_num_y, cut_margin_x,
                    cut_margin_y, cutline_set, x_cnt, y_cnt, x_pos, y_pos,
                    idx >>
LoopExit ==
    /\ pc = "loop"
    /\ idx = Len(image_set)
    /\ calls' = IF LeftOver(x_cnt, y_cnt)
                THEN calls \o CutlinesIf("top") \o << Call("render_page") >>
                ELSE calls
    /\ pc' = "done"
    /\ UNCHANGED << inputs, card_num_x, card_num_y, cut_margin_x,
                    cut_margin_y, cutline_set, x_cnt, y_cnt, x_pos, y_pos,
                    idx >>

Next == GenerateBegin \/ LoopBody \/ LoopExit

Spec == Init /\ [][Next]_vars

----------------------------------------------------------------------------
\* Reading the call history.

N == Len(image_set)
Capacity == card_num_x * card_num_y
TrueUsableWidth == page_width - 2 * page_margin_x
TrueUsableHeight == page_height - 2 * page_margin_y

At(op) == { k \in DOMAIN calls : calls[k].op = op }
Before(op, k) == Cardinality({ j \in At(op) : j < k })
Draws == At("draw_image")
Inits == At("initialize_page")
Renders == At("render_page")
Cutlines == At("draw_cutlines")
Pages == Cardinality(Renders)
\* The page (0-based) a call at position k belongs to.
PageOf(k) == Before("render_page", k)
ImagesOnPage(p) == Cardinality({ k \in Draws : PageOf(k) = p })
OpAt(k) == IF k \in DOMAIN calls THEN calls[k].op ELSE "none"
Planned == pc \in { "loop", "done" }
VerticalLines == { k \in DOMAIN cutline_set : cutline_set[k].x0 = cutline_set[k].x1 }
HorizontalLines == { k \in DOMAIN cutline_set : cutline_set[k].y0 = cutline_set[k].y1 }

----------------------------------------------------------------------------
C2_CutlineTiming ==
    /\ \A k \in Cutlines :
          \/ /\ cutline_config.layer = "bottom"
             /\ OpAt(k - 1) = "initialize_page"
             /\ OpAt(k + 1) = "draw_image"
          \/ /\ cutline_config.layer = "top"
             /\ OpAt(k - 1) = "draw_image"
             /\ OpAt(k + 1) = "render_page"
    /\ cutline_config.layer = "bottom" =>
          \A k \in Inits : OpAt(k + 1) = "draw_cutlines"
    /\ cutline_config.layer = "top" =>
          \A k \in Renders : OpAt(k - 1) = "draw_cutlines"
    /\ pc = "done" => Cardinality(Cutlines) = Pages

\* Layer 'top', a full page followed by a partial one, both with cut lines.
C2_Witness ==
    /\ pc = "done"
    /\ cutline_config.layer = "top"
    /\ Pages >= 2
    /\ N % Capacity # 0
    /\ Cardinality(Cutlines) = Pages
    /\ OpAt(Len(calls) - 1) = "draw_cutlines"

C4_PlannerFormula ==
    Planned =>
        /\ card_num_x = TrueUsableWidth \div image_width
        /\ 2 * (cut_margin_x - page_margin_x) =
               TrueUsableWidth - card_num_x * image_width
        /\ card_num_y = TrueUsableHeight \div image_height
        /\ 2 * (cut_margin_y - page_margin_y) =
               TrueUsableHeight - card_num_y * image_height

\* C5: an image that fits the usable area once per axis is accepted with
\* cardsPerRow >= 1 and cardsPerCol >= 1; an image exactly equal to the
\* usable area gives a 1 x 1 grid with cutMarginX = margin_x.
C5_FitsImpliesCapacity ==
    (/\ pc # "start"
     /\ image_width <= TrueUsableWidth
     /\ image_height <= TrueUsableHeight) =>
        /\ pc # "raised"
        /\ card_num_x >= 1
        /\ card_num_y >= 1
        /\ (image_width = TrueUsableWidth /\ image_height = TrueUsableHeight)
              => /\ card_num_x = 1
                 /\ card_num_y = 1
                 /\ cut_margin_x = page_margin_x

\* C6: when the grid capacity is zero on either axis generate() raises and
\* no _initialize_page, _draw_image, _draw_cutlines or _render_page call is
\* made, whatever the catalog and the layer.
C6_TooLargeAborts ==
    (pc # "start" /\ (card_num_x = 0 \/ card_num_y = 0)) =>
        /\ pc = "raised"
        /\ calls = << >>

\* One axis fits, the other does not, and the catalog is not empty.
C6_Witness ==
    /\ pc = "raised"
    /\ card_num_x >= 1
    /\ card_num_y = 0
    /\ N >= 1

C9_CleanCutBounds ==
    (pc = "done" /\ cutline_config.trim_offset_x = 0
             /\ cutline_config.trim_offset_y = 0) =>
        /\ \A k \in Draws :
              /\ \E v \in VerticalLines : cutline_set[v].x0 = calls[k].x
              /\ \E v \in VerticalLines :
                    cutline_set[v].x0 = calls[k].x + image_width
              /\ \E h \in HorizontalLines : cutline_set[h].y0 = calls[k].y
              /\ \E h \in HorizontalLines :
                    cutline_set[h].y0 = calls[k].y + image_height
        /\ rtl => \A k \in Draws :
              LET column == (calls[k].image - 1) % card_num_x
              IN  calls[k].x = XPos(FALSE, page_width, cut_margin_x,
                                    card_num_x - 1 - column, image_width)

\* C10: when generate() does not raise, every image drawn lies inside the
\* usable page area on both axes, left to right and right to left.
C10_InsideUsableArea ==
    \A k \in Draws :
        /\ page_margin_x <= calls[k].x
        /\ calls[k].x + image_width <= page_width - page_margin_x
        /\ page_margin_y <= calls[k].y
        /\ calls[k].y + image_height <= page_height - page_margin_y

====
